---- MODULE Spec2Model ----
(***************************************************************************)
(* Video streaming server: chunked upload, background processing worker,   *)
(* byte-range streaming and deletion (src/main.py), and the older upload   *)
(* endpoint of src/app/main.py.                                            *)
(*                                                                         *)
(* All handlers of src/main.py are coroutines on one asyncio event loop:   *)
(* the code between two suspending awaits runs without interleaving, and   *)
(* every action below is one such stretch of code.  Awaiting               *)
(* get_current_user does not suspend (it contains no await of its own).    *)
(* The filesystem is that of a POSIX host: an unlinked file stays readable *)
(* through handles opened before the unlink.                               *)
(***************************************************************************)
EXTENDS Integers, Sequences, FiniteSets, TLC

\* ---------------------------------------------------------------- bounds
MaxUploads == 2      \* upload requests (each starts at most one worker)
MaxStreams == 2      \* stream requests
MaxFileLen == 3      \* longest uploaded payload, in bytes
NumUsers   == 2      \* registered users
MaxClock   == 1      \* seconds the wall clock may advance (src/app/main.py)
MaxHeaderLen == 3    \* characters of a Range header after "bytes="

\* src/main.py:24 is 1024 * 1024; the model counts in units that keep a
\* payload of MaxFileLen bytes longer than one chunk.
CHUNK_SIZE == 2

Users     == 1 .. NumUsers
UploadIds == 1 .. MaxUploads
StreamIds == 1 .. MaxStreams
VideoIds  == 1 .. MaxUploads

\* ------------------------------------------------------------- helpers
Max(S) == CHOOSE x \in S : \A y \in S : y <= x
Min2(a, b) == IF a <= b THEN a ELSE b

\* A nullable column: <<>> is NULL, <<v>> is the value v.
Null == <<>>
Some(v) == <<v>>

\* ---------------------------------------------------- upload validation
allowed_extensions == {".mp4", ".avi", ".mov", ".mkv", ".webm", ".flv"}

\* Suffixes of the uploaded file names the model draws from.
Suffixes == {".mp4", ".MKV", ".exe"}

\* str.lower() on the suffixes above.
Lower(s) == CASE s = ".MKV" -> ".mkv"
              [] s = ".MP4" -> ".mp4"
              [] OTHER -> s

ExtAllowed(suffix) == Lower(suffix) \in allowed_extensions

\* The payload of upload request u: n bytes, each byte naming the request
\* and its offset, so that two files or two offsets never look alike.
Payload(u, n) == [i \in 1 .. n |-> 10 * u + i]

\* uuid.uuid4(): a value no earlier call returned.  The request's own index
\* stands for it.
uuid4(u) == u

\* f"{uuid.uuid4()}{file_ext}"
UniqueFilename(u, ext) == <<uuid4(u), ext>>

\* ------------------------------------------------------- Range header
\* A header value is a sequence of tokens: "bytes=" and single characters.
Digits == {"0", "1", "2", "3", "4", "5", "6", "7", "8", "9"}

DigitVal(c) == CASE c = "0" -> 0 [] c = "1" -> 1 [] c = "2" -> 2 [] c = "3" -> 3
                 [] c = "4" -> 4 [] c = "5" -> 5 [] c = "6" -> 6 [] c = "7" -> 7
                 [] c = "8" -> 8 [] OTHER -> 9

\* range_header.replace("bytes=", "")
StripUnit(h) == SelectSeq(h, LAMBDA t : t # "bytes=")

\* str.split(sep): the pieces between the separators, empty pieces kept.
RECURSIVE Split(_, _)
Split(s, sep) ==
    IF \A i \in 1 .. Len(s) : s[i] # sep
    THEN <<s>>
    ELSE LET k == CHOOSE i \in 1 .. Len(s) :
                      s[i] = sep /\ \A j \in 1 .. i - 1 : s[j] # sep
         IN  <<SubSeq(s, 1, k - 1)>> \o Split(SubSeq(s, k + 1, Len(s)), sep)

\* int(piece) succeeds on a non-empty run of digits and raises ValueError
\* on the other pieces the model draws.
IsInt(p) == p # <<>> /\ \A i \in 1 .. Len(p) : p[i] \in Digits

RECURSIVE IntOf(_)
IntOf(p) == IF p = <<>> THEN 0
            ELSE 10 * IntOf(SubSeq(p, 1, Len(p) - 1)) + DigitVal(p[Len(p)])

\* Lines 328-330: the parsed window, or the exception the parse raises.
ParseRange(h, file_size) ==
    LET byte_range == Split(StripUnit(h), "-") IN
    IF byte_range[1] # <<>> /\ ~IsInt(byte_range[1])
    THEN [err |-> "ValueError", start |-> 0, end |-> 0]
    ELSE LET start == IF byte_range[1] # <<>> THEN IntOf(byte_range[1]) ELSE 0 IN
         IF Len(byte_range) < 2
         THEN [err |-> "IndexError", start |-> start, end |-> 0]
         ELSE IF byte_range[2] # <<>> /\ ~IsInt(byte_range[2])
         THEN [err |-> "ValueError", start |-> start, end |-> 0]
         ELSE [err |-> "none", start |-> start,
               end |-> IF byte_range[2] # <<>> THEN IntOf(byte_range[2])
                       ELSE file_size - 1]

\* request.headers.get("range") is None
NoRange == <<>>

\* Header values the stream requests of the model draw from.
Headers == { NoRange,
             <<"bytes=", "0", "-">>,
             <<"bytes=", "1", "-", "2">>,
             <<"bytes=", "2", "-", "1">>,
             <<"bytes=", "7", "-">>,
             <<"bytes=", "x">> }

\* ---------------------------------------------------------------- state
VARIABLES
    videos,     \* the videos table: id -> committed row (class Video)
    files,      \* UPLOAD_DIR: filename -> bytes of the file
    unlinked,   \* filename -> who removed it ("delete" or "external")
    up,         \* upload requests: position, inputs, response
    wk,         \* process_video tasks, one per upload request
    st,         \* stream requests: position, window, bytes sent
    del,        \* the last delete request and its response
    gone,       \* id -> the user whose delete removed the id's last row
    appClock,   \* src/app/main.py: int(datetime.now().timestamp())
    appFiles,   \* src/app/main.py: uploads/: filename -> bytes
    appVideos,  \* src/app/main.py: rows of models.Video, in insertion order
    appUp       \* src/app/main.py: upload requests

mainVars == <<videos, files, unlinked, up, wk, st, del, gone>>
appVars  == <<appClock, appFiles, appVideos, appUp>>
vars     == <<videos, files, unlinked, up, wk, st, del, gone,
              appClock, appFiles, appVideos, appUp>>

\* Function update that may extend the domain.
Put(f, k, v) == [x \in DOMAIN f \cup {k} |-> IF x = k THEN v ELSE f[x]]
Drop(f, k) == [x \in DOMAIN f \ {k} |-> f[x]]

EmptyMap == [x \in {} |-> 0]

IdleUpload == [pc |-> "idle", user |-> 0, suffix |-> "", filename |-> <<>>,
               data |-> <<>>, written |-> 0, status |-> 0, video_id |-> 0,
               body |-> ""]
IdleWorker == [pc |-> "none", video_id |-> 0, attached |-> FALSE]
IdleStream == [pc |-> "idle", video_id |-> 0, filename |-> <<>>, mode |-> "",
               status |-> 0, start |-> 0, end |-> 0, total |-> 0, length |-> 0,
               remaining |-> 0, pos |-> 0, fh |-> <<>>, sent |-> <<>>,
               counted |-> FALSE]
NoDelete == [video_id |-> 0, user |-> 0, status |-> 0, again |-> FALSE]
NoInfo == [video_id |-> 0, status |-> 0, processing_status |-> "",
           duration |-> Null, thumbnail_path |-> Null, processed |-> FALSE,
           views |-> 0]
IdleAppUpload == [pc |-> "idle", suffix |-> "", filename |-> <<>>,
                  data |-> <<>>, owner |-> 0, status |-> 0]

MainInit ==
    /\ videos = EmptyMap
    /\ files = EmptyMap
    /\ unlinked = EmptyMap
    /\ up = [u \in UploadIds |-> IdleUpload]
    /\ wk = [u \in UploadIds |-> IdleWorker]
    /\ st = [s \in StreamIds |-> IdleStream]
    /\ del = NoDelete
    /\ gone = EmptyMap

AppInit ==
    /\ appClock = 0
    /\ appFiles = EmptyMap
    /\ appVideos = <<>>
    /\ appUp = [u \in UploadIds |-> IdleAppUpload]

Init == MainInit /\ AppInit

\* ----------------------------------------------------------- the table
\* Column(Integer, primary_key=True) on the SQLite database of line 61: the
\* new row gets the largest id in the table plus one, so the id of a deleted
\* last row is handed out again.
NewId == IF DOMAIN videos = {} THEN 1 ELSE Max(DOMAIN videos) + 1

\* The size column filled from the size the client announced (here the
\* largest one) instead of the count of the bytes written.
NewVideoDeclared(filename, original, file_size, user) ==
    [filename |-> filename, original_filename |-> original,
     file_size |-> MaxFileLen, duration |-> Null, thumbnail_path |-> Null,
     processed |-> FALSE, processing_status |-> "pending", views |-> 0,
     user_id |-> user]
\* Video(...) with the column defaults of lines 85-92.
NewVideo(filename, original, file_size, user) ==
    [filename |-> filename, original_filename |-> original,
     file_size |-> file_size, duration |-> Null, thumbnail_path |-> Null,
     processed |-> FALSE, processing_status |-> "pending", views |-> 0,
     user_id |-> user]

\* ------------------------------------------------- POST /api/upload
\* Lines 224-238: authenticate, check the suffix, allocate the name and
\* open the file for writing (which creates it, empty).
UploadStart(u, user, suffix, n) ==
    /\ up[u].pc = "idle"
    /\ \A v \in UploadIds : v < u => up[v].pc # "idle"
    /\ IF ~ExtAllowed(suffix)
       THEN /\ up' = [up EXCEPT ![u] = [@ EXCEPT !.pc = "done", !.suffix = suffix,
                                         !.status = 400]]
            /\ UNCHANGED files
       ELSE LET unique_filename == UniqueFilename(u, Lower(suffix)) IN
            /\ up' = [up EXCEPT ![u] = [@ EXCEPT !.pc = "writing", !.user = user,
                                         !.suffix = suffix,
                                         !.filename = unique_filename,
                                         !.data = Payload(u, n)]]
            /\ files' = Put(files, unique_filename, <<>>)
    /\ UNCHANGED <<videos, unlinked, wk, st, del, gone, appVars>>

\* Lines 239-241: one turn of the chunk loop.
UploadWrite(u) ==
    /\ up[u].pc = "writing"
    /\ up[u].written < Len(up[u].data)
    /\ LET k == Min2(CHUNK_SIZE, Len(up[u].data) - up[u].written)
           chunk == SubSeq(up[u].data, up[u].written + 1, up[u].written + k)
       IN  /\ files' = [files EXCEPT ![up[u].filename] = @ \o chunk]
           /\ up' = [up EXCEPT ![u].written = @ + Len(chunk)]
    /\ UNCHANGED <<videos, unlinked, wk, st, del, gone, appVars>>

\* Lines 238-241 when file.read or f.write raises: the async with block
\* closes the file, nothing catches the exception and the request ends
\* with a server error.
UploadWriteFails(u) ==
    /\ up[u].pc = "writing"
    /\ up[u].written < Len(up[u].data)
    /\ up' = [up EXCEPT ![u] = [IdleUpload EXCEPT !.pc = "done", !.status = 500,
                                          !.filename = up[u].filename]]
    /\ UNCHANGED <<videos, files, unlinked, wk, st, del, gone, appVars>>

\* The handler awaits process_video instead of creating a task for it: the
\* row is already processed when the response returns.
UploadFinishAwaits(u) ==
    /\ up[u].pc = "writing"
    /\ up[u].written = Len(up[u].data)
    /\ LET id == NewId IN
       /\ videos' = Put(videos, id,
                        [NewVideo(up[u].filename, up[u].suffix, up[u].written,
                                  up[u].user)
                           EXCEPT !.duration = Some(120), !.processed = TRUE,
                                  !.processing_status = "completed",
                                  !.thumbnail_path =
                                      Some(<<"thumbnails", up[u].filename>>)])
       /\ gone' = Drop(gone, id)
       /\ wk' = [wk EXCEPT ![u] = [pc |-> "done", video_id |-> id,
                                   attached |-> FALSE]]
       /\ up' = [up EXCEPT ![u] = [IdleUpload EXCEPT !.pc = "done", !.status = 200,
                                    !.video_id = id, !.body = "processing",
                                    !.suffix = up[u].suffix,
                                    !.filename = up[u].filename]]
    /\ UNCHANGED <<files, unlinked, st, del, appVars>>

\* Lines 239-263: file.read returns b"", the file is closed, the row is
\* inserted and committed, the worker task is created, the response returns.
UploadFinish(u) ==
    /\ up[u].pc = "writing"
    /\ up[u].written = Len(up[u].data)
    /\ LET id == NewId IN
       /\ videos' = Put(videos, id,
                        NewVideo(up[u].filename, up[u].suffix, up[u].written,
                                 up[u].user))
       /\ gone' = Drop(gone, id)
       /\ wk' = [wk EXCEPT ![u] = [pc |-> "ready", video_id |-> id,
                                   attached |-> FALSE]]
       /\ up' = [up EXCEPT ![u] = [IdleUpload EXCEPT !.pc = "done", !.status = 200,
                                    !.video_id = id, !.body = "processing",
                                    !.suffix = up[u].suffix,
                                    !.filename = up[u].filename]]
    /\ UNCHANGED <<files, unlinked, st, del, appVars>>

\* get_db, lines 105-106: the request's session is closed once the request
\* is over.  The worker task was handed this session: every object it
\* loaded from it becomes detached.
CloseSession(u) ==
    /\ up[u].pc = "done"
    /\ up[u].status = 200
    /\ up' = [up EXCEPT ![u].pc = "closed"]
    /\ wk' = [wk EXCEPT ![u].attached = FALSE]
    /\ UNCHANGED <<videos, files, unlinked, st, del, gone, appVars>>

\* ---------------------------------------------------- process_video
\* Lines 153-161: load the row, mark it processing, commit, go to sleep.
WorkerClaim(u) ==
    /\ wk[u].pc = "ready"
    /\ IF wk[u].video_id \notin DOMAIN videos
       THEN /\ wk' = [wk EXCEPT ![u].pc = "done"]
            /\ UNCHANGED videos
       ELSE /\ videos' = [videos EXCEPT
                            ![wk[u].video_id].processing_status = "processing"]
            /\ wk' = [wk EXCEPT ![u] = [@ EXCEPT !.pc = "sleeping",
                                         !.attached = TRUE]]
    /\ UNCHANGED <<files, unlinked, up, st, del, gone, appVars>>

\* The status committed on its own, before duration and thumbnail are set.
CompletedTorn(v) ==
    [v EXCEPT !.processing_status = "completed", !.processed = TRUE]
\* Lines 166-170 as one UPDATE: the attributes set on the loaded object
\* reach the table together, at the commit of line 170.
Completed(v) ==
    [v EXCEPT !.duration = Some(120), !.processed = TRUE,
              !.processing_status = "completed",
              !.thumbnail_path = Some(<<"thumbnails", v.filename>>)]

\* The attributes set on the object at lines 166-168 flushed together with
\* the failure status.
FailedFlushed(v, e) ==
    [v EXCEPT !.processing_status = e, !.duration = Some(120),
              !.processed = TRUE]
\* Line 175: only the status is written.
Failed(v, e) == [v EXCEPT !.processing_status = e]

\* The handler of lines 172-176 without its query: it assigns to the object
\* it already holds, which raises again when that object is detached, and
\* the row keeps the status it had.
WorkerFinishNoRequery(u) ==
    /\ wk[u].pc = "sleeping"
    /\ LET id == wk[u].video_id IN
       videos' = IF wk[u].attached /\ id \in DOMAIN videos
                 THEN [videos EXCEPT ![id] = Completed(@)]
                 ELSE videos
    /\ wk' = [wk EXCEPT ![u].pc = "done"]
    /\ UNCHANGED <<files, unlinked, up, st, del, gone, appVars>>

\* Lines 166-176 after the sleep.  Reading video.filename at line 169
\* refreshes the object, whose attributes the commit of line 158 expired:
\* a detached object raises DetachedInstanceError, a deleted row raises
\* ObjectDeletedError, and the handler of lines 172-176 loads the row of
\* this id again and marks it failed if there is one.
WorkerFinish(u) ==
    /\ wk[u].pc = "sleeping"
    /\ LET id == wk[u].video_id IN
       IF ~wk[u].attached
       THEN videos' = IF id \in DOMAIN videos
                      THEN [videos EXCEPT
                              ![id] = Failed(@, "failed: DetachedInstanceError")]
                      ELSE videos
       ELSE videos' = IF id \in DOMAIN videos
                      THEN [videos EXCEPT ![id] = Completed(@)]
                      ELSE videos
    /\ wk' = [wk EXCEPT ![u].pc = "done"]
    /\ UNCHANGED <<files, unlinked, up, st, del, gone, appVars>>

\* ---------------------------------------------- GET /api/stream/{id}
\* A write of the value computed from a row read before the other requests
\* committed theirs.
IncViewsStale(n) == 1
\* The counter bumped once more when the body starts.
IncViewsTwice(n) == n + 2
\* Line 319: video.views += 1
IncViews(n) == n + 1

StreamRefuse(s, id, code) ==
    [st EXCEPT ![s] = [@ EXCEPT !.pc = "done", !.video_id = id, !.status = code]]

\* Lines 310-360, up to the return of the StreamingResponse: no await
\* suspends in between.  The generator iterfile has not run yet; the
\* response's status line and headers are fixed here.
StreamRequest(s, id, h) ==
    /\ st[s].pc = "idle"
    /\ \A t \in StreamIds : t < s => st[t].pc # "idle"
    /\ IF id \notin DOMAIN videos
       THEN /\ st' = StreamRefuse(s, id, 404)
            /\ UNCHANGED videos
       ELSE
       LET file_path == videos[id].filename IN
       IF file_path \notin DOMAIN files
       THEN /\ st' = StreamRefuse(s, id, 404)
            /\ UNCHANGED videos
       ELSE
       LET file_size == Len(files[file_path])
           r == ParseRange(h, file_size)
       IN  /\ videos' = [videos EXCEPT ![id].views = IncViews(@)]
           /\ IF h = NoRange
              THEN st' = [st EXCEPT ![s] =
                       [@ EXCEPT !.pc = "headers", !.video_id = id,
                                 !.filename = file_path, !.mode = "full",
                                 !.status = 200, !.total = file_size,
                                 !.length = file_size, !.counted = TRUE]]
              ELSE IF r.err # "none"
              THEN st' = [st EXCEPT ![s] =
                       [@ EXCEPT !.pc = "done", !.video_id = id,
                                 !.status = 500, !.counted = TRUE]]
              ELSE st' = [st EXCEPT ![s] =
                       [@ EXCEPT !.pc = "headers", !.video_id = id,
                                 !.filename = file_path, !.mode = "partial",
                                 !.status = 206, !.start = r.start,
                                 !.end = r.end, !.total = file_size,
                                 !.length = r.end - r.start + 1,
                                 !.counted = TRUE]]
    /\ UNCHANGED <<files, unlinked, up, wk, del, gone, appVars>>

\* Lines 333-335 and 354: the response has sent its status line and
\* headers and asks iterfile for the first chunk; iterfile opens the file
\* (and seeks to start).  A missing file raises FileNotFoundError inside
\* the response, after the headers.
StreamOpen(s) ==
    /\ st[s].pc = "headers"
    /\ IF st[s].filename \in DOMAIN files
       THEN st' = [st EXCEPT ![s] =
                [@ EXCEPT !.pc = "reading", !.fh = files[st[s].filename],
                          !.pos = IF st[s].mode = "partial" THEN st[s].start ELSE 0,
                          !.remaining = st[s].end - st[s].start + 1]]
       ELSE st' = [st EXCEPT ![s].pc = "crashed"]
    /\ UNCHANGED <<videos, files, unlinked, up, wk, del, gone, appVars>>

\* The read starts one byte early (a seek to start - 1).
ReadAtOffByOne(fh, pos, n) ==
    IF pos >= Len(fh) THEN <<>>
    ELSE SubSeq(fh, IF pos = 0 THEN 1 ELSE pos, Min2(pos + n, Len(fh)))
\* f.read() without a size: everything up to the end of the file.
ReadAtAll(fh, pos, n) ==
    IF pos >= Len(fh) THEN <<>> ELSE SubSeq(fh, pos + 1, Len(fh))
\* f.read(n) on the open handle at offset pos.
ReadAt(fh, pos, n) ==
    IF pos >= Len(fh) THEN <<>> ELSE SubSeq(fh, pos + 1, Min2(pos + n, Len(fh)))

\* Lines 336-342 and 355-356: one turn of the read loop.
StreamRead(s) ==
    /\ st[s].pc = "reading"
    /\ LET r == st[s]
           chunk_size == IF r.mode = "partial"
                         THEN Min2(CHUNK_SIZE, r.remaining) ELSE CHUNK_SIZE
           data == ReadAt(r.fh, r.pos, chunk_size)
       IN  IF (r.mode = "partial" /\ r.remaining <= 0) \/ data = <<>>
           THEN st' = [st EXCEPT ![s] = [@ EXCEPT !.pc = "done", !.fh = <<>>]]
           ELSE st' = [st EXCEPT ![s] =
                    [@ EXCEPT !.pos = @ + Len(data),
                              !.remaining = @ - Len(data),
                              !.sent = @ \o data]]
    /\ UNCHANGED <<videos, files, unlinked, up, wk, del, gone, appVars>>

\* The client disconnects: the response stops iterating iterfile.
StreamAbort(s) ==
    /\ st[s].pc \in {"headers", "reading"}
    /\ st' = [st EXCEPT ![s] = [@ EXCEPT !.pc = "aborted", !.fh = <<>>]]
    /\ UNCHANGED <<videos, files, unlinked, up, wk, del, gone, appVars>>

\* The query of lines 366-368 without its user_id filter: any authenticated
\* user deletes any video.
DeleteVideoAnyUser(user, id) ==
    IF id \notin DOMAIN videos
    THEN /\ del' = [video_id |-> id, user |-> user, status |-> 404,
                    again |-> id \in DOMAIN gone /\ gone[id] = user]
         /\ UNCHANGED <<videos, files, unlinked, up, wk, st, gone, appVars>>
    ELSE LET file_path == videos[id].filename IN
         /\ files' = Drop(files, file_path)
         /\ unlinked' = IF file_path \in DOMAIN files
                        THEN Put(unlinked, file_path, "delete") ELSE unlinked
         /\ videos' = Drop(videos, id)
         /\ gone' = Put(gone, id, user)
         /\ del' = [video_id |-> id, user |-> user, status |-> 200,
                    again |-> FALSE]
         /\ UNCHANGED <<up, wk, st, appVars>>

\* ------------------------------------------- DELETE /api/video/{id}
\* Lines 365-382; nothing suspends between the query and the commit.
DeleteVideo(user, id) ==
    IF id \notin DOMAIN videos \/ videos[id].user_id # user
    THEN /\ del' = [video_id |-> id, user |-> user, status |-> 404,
                    again |-> id \in DOMAIN gone /\ gone[id] = user]
         /\ UNCHANGED <<videos, files, unlinked, up, wk, st, gone, appVars>>
    ELSE LET file_path == videos[id].filename IN
         /\ files' = Drop(files, file_path)
         /\ unlinked' = IF file_path \in DOMAIN files
                        THEN Put(unlinked, file_path, "delete") ELSE unlinked
         /\ videos' = Drop(videos, id)
         /\ gone' = Put(gone, id, user)
         /\ del' = [video_id |-> id, user |-> user, status |-> 200,
                    again |-> FALSE]
         /\ UNCHANGED <<up, wk, st, appVars>>

\* ------------------------------------------------ GET /api/video/{id}
\* Lines 293-305 (and the rows of list_videos, lines 275-288): the
\* response to a query that runs in the current state, one read of the
\* committed row.
GetVideoInfo(id) ==
    IF id \notin DOMAIN videos
    THEN [NoInfo EXCEPT !.video_id = id, !.status = 404]
    ELSE [video_id |-> id, status |-> 200,
          processing_status |-> videos[id].processing_status,
          duration |-> videos[id].duration,
          thumbnail_path |-> videos[id].thumbnail_path,
          processed |-> videos[id].processed,
          views |-> videos[id].views]

\* ------------------------------------------------------- environment
\* A stored file disappears without the server's doing (the case lines 315
\* and 375 test for).
StorageLoss(id) ==
    /\ id \in DOMAIN videos
    /\ videos[id].filename \in DOMAIN files
    /\ files' = Drop(files, videos[id].filename)
    /\ unlinked' = Put(unlinked, videos[id].filename, "external")
    /\ UNCHANGED <<videos, up, wk, st, del, gone, appVars>>

\* ------------------------------------------------------ specifications
\* Ingestion, processing and deletion: every interleaving of the upload
\* requests, their worker tasks, the closing of their sessions, deletes and
\* status queries.
Next ==
    \/ \E u \in UploadIds, user \in Users, suffix \in Suffixes,
          n \in 0 .. MaxFileLen : UploadStart(u, user, suffix, n)
    \/ \E u \in UploadIds : UploadWrite(u)
    \/ \E u \in UploadIds : UploadWriteFails(u)
    \/ \E u \in UploadIds : UploadFinish(u)
    \/ \E u \in UploadIds : CloseSession(u)
    \/ \E u \in UploadIds : WorkerClaim(u)
    \/ \E u \in UploadIds : WorkerFinish(u)
    \/ \E user \in Users, id \in VideoIds : DeleteVideo(user, id)

Spec == Init /\ [][Next]_vars

\* The same with the scheduling of the event loop: a task created at line
\* 257 gets to run, and the timer of the sleep at line 161 fires.
SpecLive ==
    /\ Init
    /\ [][Next]_vars
    /\ \A u \in UploadIds : WF_vars(WorkerClaim(u)) /\ WF_vars(WorkerFinish(u))

\* Streaming.  The state right after upload request 1 of user 1 returned:
\* its file is stored, its row is committed and pending, its worker task is
\* created and its session is still open.
StreamInit ==
    /\ AppInit
    /\ \E n \in 0 .. MaxFileLen :
         LET name == UniqueFilename(1, ".mp4") IN
         /\ files = Put(EmptyMap, name, Payload(1, n))
         /\ videos = Put(EmptyMap, 1, NewVideo(name, ".mp4", n, 1))
         /\ up = [u \in UploadIds |->
                    IF u = 1
                    THEN [IdleUpload EXCEPT !.pc = "done", !.filename = name,
                             !.suffix = ".mp4",
                             !.status = 200, !.video_id = 1,
                             !.body = "processing"]
                    ELSE IdleUpload]
    /\ wk = [u \in UploadIds |->
               IF u = 1 THEN [pc |-> "ready", video_id |-> 1, attached |-> FALSE]
               ELSE IdleWorker]
    /\ unlinked = EmptyMap
    /\ st = [s \in StreamIds |-> IdleStream]
    /\ del = NoDelete
    /\ gone = EmptyMap

StreamNext ==
    \/ \E s \in StreamIds, id \in VideoIds, h \in Headers : StreamRequest(s, id, h)
    \/ \E s \in StreamIds : StreamOpen(s)
    \/ \E s \in StreamIds : StreamRead(s)
    \/ \E s \in StreamIds : StreamAbort(s)
    \/ \E user \in Users, id \in VideoIds : DeleteVideo(user, id)
    \/ \E id \in VideoIds : StorageLoss(id)
    \/ \E u \in UploadIds : CloseSession(u)
    \/ \E u \in UploadIds : WorkerClaim(u)
    \/ \E u \in UploadIds : WorkerFinish(u)

SpecStream == StreamInit /\ [][StreamNext]_vars

\* One stream request with any short Range header, on the stored file of
\* StreamInit; the owner may delete the video, or the file may be lost, at
\* any point of the request.
RangeChars == {"0", "1", "2", "-", "x"}

RangeHeaders ==
    {NoRange} \cup
    UNION { { <<"bytes=">> \o t : t \in [1 .. k -> RangeChars] } :
            k \in 0 .. MaxHeaderLen }

RangeNext ==
    \/ \E id \in VideoIds, h \in RangeHeaders : StreamRequest(1, id, h)
    \/ StreamOpen(1)
    \/ StreamRead(1)
    \/ StreamAbort(1)
    \/ \E user \in Users, id \in VideoIds : DeleteVideo(user, id)
    \/ \E id \in VideoIds : StorageLoss(id)

SpecRange == StreamInit /\ [][RangeNext]_vars

\* ------------------------------------- src/app/main.py: POST /upload/
\* Content types the requests of the model declare.
ContentTypes == {"video/mp4", "application/octet-stream"}

\* file.content_type.startswith("video/")
IsVideoType(content_type) == content_type = "video/mp4"

\* Lines 75-76: f"{current_user.id}_{int(datetime.now().timestamp())}{ext}"
AppFilename(user, now, file_extension) == <<user, now, file_extension>>

\* Lines 68-80: the content-type test, the name, and open(file_path, "wb"),
\* which creates the file or truncates the one already there.
AppUploadStart(u, user, suffix, content_type, n) ==
    /\ appUp[u].pc = "idle"
    /\ \A v \in UploadIds : v < u => appUp[v].pc # "idle"
    /\ IF ~IsVideoType(content_type)
       THEN /\ appUp' = [appUp EXCEPT ![u] =
                           [@ EXCEPT !.pc = "done", !.suffix = suffix,
                                     !.status = 400]]
            /\ UNCHANGED appFiles
       ELSE LET unique_filename == AppFilename(user, appClock, suffix) IN
            /\ appUp' = [appUp EXCEPT ![u] =
                           [@ EXCEPT !.pc = "open", !.suffix = suffix,
                                     !.filename = unique_filename,
                                     !.data = Payload(u, n), !.owner = user]]
            /\ appFiles' = Put(appFiles, unique_filename, <<>>)
    /\ UNCHANGED <<appClock, appVideos, mainVars>>

\* Lines 81-82: the whole body is read and written at the handle's offset 0;
\* bytes another handle wrote past its end stay in the file.
AppUploadWrite(u) ==
    /\ appUp[u].pc = "open"
    /\ LET old == appFiles[appUp[u].filename]
           content == appUp[u].data
       IN  appFiles' = [appFiles EXCEPT ![appUp[u].filename] =
                          content \o SubSeq(old, Len(content) + 1, Len(old))]
    /\ appUp' = [appUp EXCEPT ![u].pc = "written"]
    /\ UNCHANGED <<appClock, appVideos, mainVars>>

\* Lines 85-95: the row is inserted and committed.
AppUploadCommit(u) ==
    /\ appUp[u].pc = "written"
    /\ appVideos' = Append(appVideos, [filename |-> appUp[u].filename,
                                       owner_id |-> appUp[u].owner,
                                       upload |-> u])
    /\ appUp' = [appUp EXCEPT ![u] = [@ EXCEPT !.pc = "done", !.status = 200]]
    /\ UNCHANGED <<appClock, appFiles, mainVars>>

\* The wall clock reaches the next second.
Tick ==
    /\ appClock < MaxClock
    /\ appClock' = appClock + 1
    /\ UNCHANGED <<appFiles, appVideos, appUp, mainVars>>

AppNext ==
    \/ \E u \in UploadIds, user \in Users, suffix \in Suffixes,
          content_type \in ContentTypes, n \in 0 .. MaxFileLen :
            AppUploadStart(u, user, suffix, content_type, n)
    \/ \E u \in UploadIds : AppUploadWrite(u)
    \/ \E u \in UploadIds : AppUploadCommit(u)
    \/ Tick

SpecApp == Init /\ [][AppNext]_vars

\* ================================================================ claims
Terminal(status) == status \notin {"pending", "processing"}
Unsatisfiable(r) == r.start >= r.total \/ r.start > r.end
Started(s) == st[s].pc # "idle"

\* C1: a stream request whose Range header parses to start >= totalSize or
\* to start > end is answered with range-not-satisfiable (416): it sends no
\* byte of the file and leaves the view counter as it was.
C1_UnsatisfiableRangeRefused ==
    \A s \in StreamIds :
        (st[s].mode = "partial" /\ Unsatisfiable(st[s]))
            => st[s].status = 416 /\ st[s].sent = <<>> /\ ~st[s].counted

\* C2: when every stream request issued so far passed validation (each was
\* answered 200 or 206), the view counter of the video equals the number of
\* those requests, whatever the interleaving of their steps.
C2_NoLostViews ==
    LET started == {s \in StreamIds : Started(s)} IN
    (1 \in DOMAIN videos /\ \A s \in started : st[s].status \in {200, 206})
        => videos[1].views = Cardinality(started)

\* C2 witness: two streams of video 1 are in flight at once, both counted.
C2_Witness ==
    /\ 1 \in DOMAIN videos
    /\ videos[1].views = 2
    /\ \E s, t \in StreamIds :
         s # t /\ st[s].pc = "reading" /\ st[t].pc \in {"headers", "reading"}

\* C3: once the processing_status of a row is completed or failed, no step
\* sets it to pending or processing.
C3_TerminalIsFinal ==
    [][\A id \in DOMAIN videos \cap DOMAIN videos' :
          Terminal(videos[id].processing_status)
              => Terminal(videos'[id].processing_status)]_vars

\* C4: whenever a reader finds processing_status = completed, it finds the
\* duration and the thumbnail reference set in the same read.
C4_CompletedHasDurationAndThumbnail ==
    \A id \in VideoIds :
        GetVideoInfo(id).processing_status = "completed"
            => /\ GetVideoInfo(id).duration # Null
               /\ GetVideoInfo(id).thumbnail_path # Null

\* C4 witness: a reader finds a completed row.
C4_Witness ==
    \E id \in VideoIds :
        /\ GetVideoInfo(id).processing_status = "completed"
        /\ GetVideoInfo(id).duration = Some(120)

\* C5: no two rows share a backing file: every upload got a filename
\* different from the filename of every other upload (src/app/main.py).
C5_AppFilenamesDistinct ==
    \A i, j \in 1 .. Len(appVideos) :
        i # j => appVideos[i].filename # appVideos[j].filename

\* The same property of src/main.py, which holds there: the rows and the
\* uploads in flight all name different files.
MainFilenamesDistinct ==
    /\ \A i, j \in DOMAIN videos : i # j => videos[i].filename # videos[j].filename
    /\ \A u, v \in UploadIds :
          (u # v /\ up[u].filename # <<>>) => up[u].filename # up[v].filename

\* C6: a delete that repeats the owner's own successful delete of the same
\* id reports success.
C6_SecondDeleteSucceeds == del.again => del.status = 200

\* C7: after an upload failed while writing, its partially written file is
\* gone from storage and no row names it.
C7_FailedUploadLeavesNoFile ==
    \A u \in UploadIds :
        (up[u].pc = "done" /\ up[u].status = 500)
            => /\ up[u].filename \notin DOMAIN files
               /\ \A id \in DOMAIN videos : videos[id].filename # up[u].filename

\* C8: no stream that passed validation and committed its headers ends in an
\* unhandled error because delete_video removed its file.
C8_DeleteDoesNotCrashStream ==
    \A s \in StreamIds :
        st[s].pc = "crashed"
            => ~(st[s].filename \in DOMAIN unlinked
                 /\ unlinked[st[s].filename] = "delete")

\* C9: an upload whose suffix is in the allow-list succeeds, and an upload
\* with any other suffix is rejected and writes no file (src/app/main.py).
C9_AppAllowListDecides ==
    \A u \in UploadIds :
        appUp[u].pc = "done"
            => IF ExtAllowed(appUp[u].suffix)
               THEN appUp[u].status = 200
               ELSE appUp[u].status = 400 /\ appUp[u].filename \notin DOMAIN appFiles

\* The same property of src/main.py, which holds there unless a write fails
\* (C7): a finished upload succeeded, or failed while writing, if and only if
\* its suffix is in the allow-list, and a rejected upload named no file.
MainAllowListDecides ==
    \A u \in UploadIds :
        up[u].pc \in {"done", "closed"} /\ up[u].status # 500
            => IF ExtAllowed(up[u].suffix)
               THEN up[u].status = 200
               ELSE up[u].status = 400 /\ up[u].filename = <<>>

\* C10: the step that answers a stream request with 200 or 206 adds exactly
\* one to the video's view counter; the step that answers it 404 (unknown
\* id, missing file) and every later step of the stream, a client abort
\* included, leave the table as it is.
C10_ViewCountedAtStart ==
    [][\A s \in StreamIds :
          LET id == st'[s].video_id IN
          /\ (~Started(s) /\ st'[s].status \in {200, 206})
                => /\ id \in DOMAIN videos /\ id \in DOMAIN videos'
                   /\ videos'[id].views = videos[id].views + 1
          /\ (~Started(s) /\ st'[s].status = 404) => videos' = videos
          /\ (Started(s) /\ st'[s] # st[s]) => videos' = videos]_vars

\* C10 witness: one stream of video 1 was aborted by its client after it
\* was counted, and a later request for video 1 was refused because the file
\* is missing: the counter stands at one.
C10_Witness ==
    /\ 1 \in DOMAIN videos
    /\ videos[1].views = 1
    /\ videos[1].filename \notin DOMAIN files
    /\ \E s, t \in StreamIds :
         /\ st[s].pc = "aborted" /\ st[s].status \in {200, 206}
         /\ st[t].status = 404 /\ st[t].video_id = 1

\* C11: a range request for [start, end] with 0 <= start <= end < N that
\* runs to its end was answered 206 and sent exactly end - start + 1 bytes,
\* as many as its Content-Length declares: the bytes start .. end of the
\* stored file.
C11_PartialBodyIsTheSlice ==
    \A s \in StreamIds :
        (st[s].pc = "done" /\ st[s].mode = "partial"
           /\ 0 <= st[s].start /\ st[s].start <= st[s].end
           /\ st[s].end < st[s].total)
            => /\ st[s].status = 206
               /\ Len(st[s].sent) = st[s].end - st[s].start + 1
               /\ Len(st[s].sent) = st[s].length
               /\ st[s].sent = SubSeq(Payload(1, st[s].total),
                                      st[s].start + 1, st[s].end + 1)

\* C11 witness: the window 0-2 of a 3-byte file, which takes two chunks,
\* was sent whole.
C11_Witness ==
    /\ st[1].pc = "done" /\ st[1].mode = "partial"
    /\ st[1].start = 0 /\ st[1].end = 2 /\ st[1].total = 3
    /\ st[1].sent = Payload(1, 3)

\* C12: every response in partial mode (206) declares a window with
\* 0 <= start <= end < totalSize.
C12_PartialWindowInsideFile ==
    \A s \in StreamIds :
        st[s].status = 206
            => /\ 0 <= st[s].start /\ st[s].start <= st[s].end
               /\ st[s].end < st[s].total

\* C17: a step of a stream sends at most CHUNK_SIZE bytes, and a request
\* without Range header that runs to its end was answered 200 with
\* Content-Length N and sent the N bytes of the stored file from offset 0.
C17_FullBodyIsTheFile ==
    [][\A s \in StreamIds :
          /\ Len(st'[s].sent) - Len(st[s].sent) <= CHUNK_SIZE
          /\ (st'[s].pc = "done" /\ st'[s].mode = "full")
                => /\ st'[s].status = 200
                   /\ st'[s].length = st'[s].total
                   /\ Len(st'[s].sent) = st'[s].total
                   /\ st'[s].sent = Payload(1, st'[s].total)]_vars

\* C17 witness: a 3-byte file was sent whole, in two chunks.
C17_Witness ==
    /\ st[1].pc = "done" /\ st[1].mode = "full" /\ st[1].status = 200
    /\ st[1].total = 3 /\ st[1].sent = Payload(1, 3)

\* C13: a row exists only for a file whose writer has finished: no upload
\* request is still writing the file a row names, the file holds the
\* client's bytes, and file_size is the number of bytes written to it.
C13_RecordOnlyForWrittenFile ==
    \A id \in DOMAIN videos :
        LET f == videos[id].filename IN
        /\ \A u \in UploadIds : up[u].pc = "writing" => up[u].filename # f
        /\ f \in DOMAIN files
        /\ videos[id].file_size = Len(files[f])
        /\ files[f] = Payload(f[1], videos[id].file_size)

\* C13 witness: the row of a 3-byte file (two chunks) exists while another
\* upload is in the middle of writing its file.
C13_Witness ==
    \E id \in DOMAIN videos, u \in UploadIds :
        /\ videos[id].file_size = 3
        /\ up[u].pc = "writing"
        /\ up[u].written > 0 /\ up[u].written < Len(up[u].data)

IsFailed(status) == status \notin {"pending", "processing", "completed"}

\* C14: a step that marks a row failed changes the processing_status of
\* that row and nothing else in the table: duration, thumbnail_path,
\* processed, views and every other column keep their values.
C14_FailureWritesOnlyStatus ==
    [][\A id \in DOMAIN videos :
          (/\ id \in DOMAIN videos'
           /\ videos'[id].processing_status # videos[id].processing_status
           /\ IsFailed(videos'[id].processing_status))
              => videos' = [videos EXCEPT
                              ![id].processing_status =
                                  videos'[id].processing_status]]_vars

\* C14 witness: a row that was viewed and then marked failed still has its
\* view count and no duration, thumbnail or processed flag.
C14_Witness ==
    \E id \in DOMAIN videos :
        /\ IsFailed(videos[id].processing_status)
        /\ videos[id].views > 0
        /\ videos[id].duration = Null
        /\ videos[id].thumbnail_path = Null
        /\ ~videos[id].processed

\* C15: in the step that produces the response of a successful upload, the
\* new row is pending or processing and its worker task has not finished.
C15_UploadReturnsBeforeProcessing ==
    [][\A u \in UploadIds :
          (up[u].pc = "writing" /\ up'[u].pc = "done" /\ up'[u].status = 200)
              => /\ up'[u].video_id \in DOMAIN videos'
                 /\ videos'[up'[u].video_id].processing_status
                        \in {"pending", "processing"}
                 /\ wk'[u].pc # "done"]_vars

\* C15 witness: the upload has returned 200 and its row is pending while
\* another row of the table is already completed.
C15_Witness ==
    \E u \in UploadIds, id \in DOMAIN videos :
        /\ up[u].pc = "done" /\ up[u].status = 200
        /\ up[u].video_id \in DOMAIN videos /\ up[u].video_id # id
        /\ videos[up[u].video_id].processing_status = "pending"
        /\ wk[u].pc = "ready"
        /\ videos[id].processing_status = "completed"

\* C16: a delete request for an existing video by a user who does not own
\* it is answered 403 or 404 and changes neither the table nor the files.
C16_ForeignDeleteHasNoEffect ==
    [][(/\ del' # del
        /\ del'.video_id \in DOMAIN videos
        /\ videos[del'.video_id].user_id # del'.user)
          => /\ del'.status \in {403, 404}
             /\ videos' = videos
             /\ files' = files]_vars

\* C16 witness: a delete was refused with 404 and the video it named is
\* still there, with its file, owned by another user.
C16_Witness ==
    /\ del.status = 404
    /\ del.video_id \in DOMAIN videos
    /\ videos[del.video_id].user_id # del.user
    /\ videos[del.video_id].filename \in DOMAIN files

StatusEdges ==
    {<<"pending", "processing">>, <<"processing", "completed">>,
     <<"processing", "failed: DetachedInstanceError">>}

\* C18: a row is created pending, and every change of the
\* processing_status of a row is pending -> processing,
\* processing -> completed or processing -> failed.
C18_OnlyLifecycleEdges ==
    [][\A id \in DOMAIN videos' :
          IF id \in DOMAIN videos
          THEN \/ videos'[id].processing_status = videos[id].processing_status
               \/ <<videos[id].processing_status,
                    videos'[id].processing_status>> \in StatusEdges
          ELSE videos'[id].processing_status = "pending"]_vars

OwnRow(u) == {id \in DOMAIN videos : videos[id].filename = up[u].filename}

\* C19: every row eventually has a terminal status or is deleted.
C19_EveryRecordSettles ==
    \A id \in VideoIds :
        (id \in DOMAIN videos)
            ~> (id \notin DOMAIN videos
                  \/ Terminal(videos[id].processing_status))

\* C19 witness: the worker of an upload has finished and the row of that
\* upload is marked failed, the session having been closed under it.
C19_Witness ==
    \E u \in UploadIds :
        /\ wk[u].pc = "done" /\ up[u].pc = "closed"
        /\ \E id \in OwnRow(u) : IsFailed(videos[id].processing_status)

\* C20: a step of a worker task whose video has been deleted changes no
\* row of the table.
C20_WorkerLeavesDeletedVideoAlone ==
    [][\A u \in UploadIds :
          (/\ wk'[u] # wk[u]
           /\ wk[u].pc \in {"ready", "sleeping"}
           /\ OwnRow(u) = {})
              => videos' = videos]_vars

====
